---- MODULE Spec2Model ----
(***************************************************************************)
(* Odd/even counter contract (src/src/contract.rs).                        *)
(*                                                                         *)
(* The contract keeps one State record {count: i32, owner} in a storage    *)
(* singleton.  init writes it, handle dispatches Increase / Decrease /     *)
(* Reset to try_increase / try_decrease / try_reset, and query answers     *)
(* QueryEvenOdd with a formatted string.                                   *)
(***************************************************************************)
EXTENDS Integers, Sequences, FiniteSets, TLC

\* ------------------------------------------------------------------ bounds
\* Arguments are drawn from -SmallMax..SmallMax and from the EdgeWidth+1
\* values at each end of the i32 range; a run makes at most MaxOps calls.
SmallMax == 2
EdgeWidth == 1
MaxOps == 3

\* ------------------------------------------------------- i32 arithmetic
MaxI32 == 2147483647
MinI32 == (-MaxI32) - 1

Values ==
    ((0 - SmallMax)..SmallMax)
        \cup {MinI32 + i : i \in 0..EdgeWidth}
        \cup {MaxI32 - i : i \in 0..EdgeWidth}

\* Senders of messages (env.message.sender); the unit tests use these two.
Addrs == {"creator", "anyone"}

\* c + v fits in an i32
AddInRange(c, v) ==
    /\ (v > 0 => c <= MaxI32 - v)
    /\ (v < 0 => c >= MinI32 - v)

\* c - v fits in an i32
SubInRange(c, v) ==
    /\ (v > 0 => c >= MinI32 + v)
    /\ (v < 0 => c <= MaxI32 + v)

\* two's complement addition of two i32 (the exact sum modulo 2^32),
\* computed without leaving the i32 range
wrapping_add(c, v) ==
    IF AddInRange(c, v) THEN c + v
    ELSE IF v > 0 THEN (c + MinI32) + (v + MinI32)
    ELSE (c - MinI32) + (v - MinI32)

\* two's complement subtraction of two i32
wrapping_sub(c, v) ==
    IF SubInRange(c, v) THEN c - v
    ELSE IF v < 0 THEN (c + MinI32) - (v - MinI32)
    ELSE (c - MinI32) - (v + MinI32)

\* Rust's / and % on i32 truncate toward zero (b > 0 here); TLA+'s \div and %
\* round toward minus infinity.
RustDiv(a, b) == IF a >= 0 \/ a % b = 0 THEN a \div b ELSE (a \div b) + 1
RustRem(a, b) == a - b * RustDiv(a, b)

\* ---------------------------------------------------------- formatting
\* Strings are sequences of one-character strings.
DigitChars == <<"0", "1", "2", "3", "4", "5", "6", "7", "8", "9">>
EvenPrefix == <<"E", "v", "e", "n", " ", "N", "u", "m", "b", "e", "r", ":", " ">>
OddPrefix == <<"O", "d", "d", " ", "N", "u", "m", "b", "e", "r", ":", " ">>

\* decimal digits of |n| for n <= 0, most significant first (the magnitude of
\* i32::MIN does not fit in an i32, so the digits are taken from the negative)
RECURSIVE NegDigits(_)
NegDigits(n) ==
    IF n > -10 THEN <<DigitChars[(-n) + 1]>>
    ELSE NegDigits(RustDiv(n, 10)) \o <<DigitChars[(-RustRem(n, 10)) + 1]>>

\* format!("{}", n) for n: i32
to_string(n) == IF n >= 0 THEN NegDigits(-n) ELSE <<"-">> \o NegDigits(n)

\* ------------------------------------------------------------- results
Ok(data) == [kind |-> "Ok", data |-> data]
Err(kind) == [kind |-> kind, data |-> <<>>]

\* --------------------------------------------------------------- state
VARIABLES
    storage,          \* the singleton: <<>> when absent, <<State>> when saved
    overflow_checks,  \* build profile: TRUE when i32 overflow panics
    last,             \* the last call: [op, sender, arg, result]
    before,           \* storage as it was when the last call started
    prev,             \* the call before the last: [repeat, result]
    creator,          \* sender of the instantiating init ("nobody" before)
    steps             \* number of calls made

vars == <<storage, overflow_checks, last, before, prev, creator, steps>>

State(count, owner) == [count |-> count, owner |-> owner]

\* Singleton::save
save(state) == <<state>>

\* Singleton::load: NotFound when nothing was saved
load(store) == IF store = <<>> THEN Err("NotFound") ELSE Ok(store[1])

\* Singleton::update: load, then save what the closure returns when it is Ok.
\* outcome is what the closure returns for the loaded State store[1]; it is
\* looked at only when the load succeeded.
update(store, outcome) ==
    IF load(store).kind # "Ok"
    THEN [storage |-> store, result |-> Err(load(store).kind)]
    ELSE IF outcome.kind = "Ok"
    THEN [storage |-> save(outcome.state), result |-> Ok(<<>>)]
    ELSE [storage |-> store, result |-> Err(outcome.kind)]

\* ---------------------------------------------------------- operations
\* init that refuses to overwrite a State that is already there
init_once(store, sender, count) ==
    IF store # <<>> THEN [storage |-> store, result |-> Err("GenericErr")]
    ELSE [storage |-> save(State(count, sender)), result |-> Ok(<<>>)]

init(store, sender, count) ==
    [storage |-> save(State(count, sender)), result |-> Ok(<<>>)]

\* the closure of try_increase: state.count += value wraps, or panics when
\* the build checks overflow
increase_action(state, value, checks) ==
    IF checks /\ ~AddInRange(state.count, value)
    THEN [kind |-> "Panic", state |-> state]
    ELSE [kind |-> "Ok",
          state |-> State(wrapping_add(state.count, value), state.owner)]

\* the closure of try_decrease: state.count -= value
decrease_action(state, value, checks) ==
    IF checks /\ ~SubInRange(state.count, value)
    THEN [kind |-> "Panic", state |-> state]
    ELSE [kind |-> "Ok",
          state |-> State(wrapping_sub(state.count, value), state.owner)]

\* the closure of try_reset
reset_action(state, sender, count) ==
    IF sender # state.owner
    THEN [kind |-> "Unauthorized", state |-> state]
    ELSE [kind |-> "Ok", state |-> State(count, state.owner)]

\* try_increase that rebuilds the State with the sender as owner
try_increase_takes_owner(store, sender, value, checks) ==
    update(store,
           LET r == increase_action(store[1], value, checks)
           IN  [r EXCEPT !.state = State(r.state.count, sender)])

\* try_increase that starts from a default State when none is stored
try_increase_or_default(store, sender, value, checks) ==
    IF store = <<>>
    THEN [storage |-> save(State(value, sender)), result |-> Ok(<<>>)]
    ELSE update(store, increase_action(store[1], value, checks))

try_increase(store, sender, value, checks) ==
    update(store, increase_action(store[1], value, checks))

\* try_decrease copied from try_increase with the operator left as +=
try_decrease_adds(store, sender, value, checks) ==
    update(store, increase_action(store[1], value, checks))

\* try_decrease with the owner check of try_reset
try_decrease_owner_only(store, sender, value, checks) ==
    update(store,
           IF sender # store[1].owner
           THEN [kind |-> "Unauthorized", state |-> store[1]]
           ELSE decrease_action(store[1], value, checks))

try_decrease(store, sender, value, checks) ==
    update(store, decrease_action(store[1], value, checks))

\* try_reset without the owner check
try_reset_unchecked(store, sender, count) ==
    update(store, [kind |-> "Ok", state |-> State(count, store[1].owner)])

\* try_reset that resets to zero whatever the argument
try_reset_to_zero(store, sender, count) ==
    update(store, reset_action(store[1], sender, 0))

\* try_reset with += in place of =
try_reset_adds(store, sender, count) ==
    update(store,
           reset_action(store[1], sender, wrapping_add(store[1].count, count)))

try_reset(store, sender, count) ==
    update(store, reset_action(store[1], sender, count))

\* query_even_odd that tests for odd with count % 2 == 1
query_even_odd_rem_is_one(store) ==
    LET l == load(store)
    IN  IF l.kind # "Ok" THEN Err(l.kind)
        ELSE LET state == l.data
             IN  IF RustRem(state.count, 2) = 1
                 THEN Ok(OddPrefix \o to_string(state.count))
                 ELSE Ok(EvenPrefix \o to_string(state.count))

query_even_odd(store) ==
    LET l == load(store)
    IN  IF l.kind # "Ok" THEN Err(l.kind)
        ELSE LET state == l.data
             IN  IF RustRem(state.count, 2) = 0
                 THEN Ok(EvenPrefix \o to_string(state.count))
                 ELSE Ok(OddPrefix \o to_string(state.count))

\* handle: dispatch on the message variant
handle(store, sender, msg, checks) ==
    CASE msg.op = "Increase" -> try_increase(store, sender, msg.arg, checks)
      [] msg.op = "Decrease" -> try_decrease(store, sender, msg.arg, checks)
      [] msg.op = "Reset" -> try_reset(store, sender, msg.arg)

\* query: dispatch on the message variant (to_binary only encodes the string)
query(store) == query_even_odd(store)

HandleOps == {"Increase", "Decrease", "Reset"}

NoCall == [op |-> "None", sender |-> "nobody", arg |-> 0, result |-> Err("None")]

NoPrev == [repeat |-> FALSE, result |-> Err("None")]

Init ==
    /\ storage = <<>>
    /\ overflow_checks \in BOOLEAN
    /\ last = NoCall
    /\ before = <<>>
    /\ prev = NoPrev
    /\ creator = "nobody"
    /\ steps = 0

\* History of the calls, kept for the properties below: the call just made,
\* the storage it started from, and whether it repeats the call made right
\* before it (same operation, sender and argument) on a contract that was
\* already initialized when that earlier call started.
Record(op, sender, arg, result) ==
    /\ last' = [op |-> op, sender |-> sender, arg |-> arg, result |-> result]
    /\ before' = storage
    /\ prev' = [repeat |-> /\ last.op = op
                           /\ last.sender = sender
                           /\ last.arg = arg
                           /\ before # <<>>,
                result |-> last.result]
    /\ steps' = steps + 1

\* the host instantiates the contract: init on empty storage
Instantiate ==
    /\ steps < MaxOps
    /\ storage = <<>>
    /\ \E sender \in Addrs, count \in Values :
        LET r == init(storage, sender, count)
        IN  /\ storage' = r.storage
            /\ creator' = sender
            /\ Record("Init", sender, count, r.result)
    /\ UNCHANGED overflow_checks

\* init called again on storage that already holds a State (the unit tests
\* call init directly; nothing in init looks at the storage first)
Reinstantiate ==
    /\ steps < MaxOps
    /\ storage # <<>>
    /\ \E sender \in Addrs, count \in Values :
        LET r == init(storage, sender, count)
        IN  /\ storage' = r.storage
            /\ creator' = sender
            /\ Record("Init", sender, count, r.result)
    /\ UNCHANGED overflow_checks

\* a handle call; a call that fails or panics leaves the storage as it was
HandleCall ==
    /\ steps < MaxOps
    /\ \E sender \in Addrs, op \in HandleOps, arg \in Values :
        LET r == handle(storage, sender, [op |-> op, arg |-> arg], overflow_checks)
        IN  /\ storage' = r.storage
            /\ Record(op, sender, arg, r.result)
    /\ UNCHANGED <<overflow_checks, creator>>

\* QueryCall with the state written back after the read
QueryCall_writes ==
    /\ steps < MaxOps
    /\ Record("QueryEvenOdd", "nobody", 0, query(storage))
    /\ storage' = IF storage = <<>> THEN save(State(0, "nobody"))
                  ELSE save(State(RustRem(storage[1].count, 2), storage[1].owner))
    /\ UNCHANGED <<overflow_checks, creator>>

\* a query: deps is borrowed immutably, the storage is only read
QueryCall ==
    /\ steps < MaxOps
    /\ Record("QueryEvenOdd", "nobody", 0, query(storage))
    /\ UNCHANGED <<storage, overflow_checks, creator>>

Next == Instantiate \/ HandleCall \/ QueryCall

\* the contract as the host runs it: instantiated once
Spec == Init /\ [][Next]_vars

NextDirect == Instantiate \/ Reinstantiate \/ HandleCall \/ QueryCall

\* the entry points called directly, init any number of times
SpecDirect == Init /\ [][NextDirect]_vars

\* ================================================================ claims
Initialized(store) == store # <<>>
Succeeded == last.result = Ok(<<>>)

\* reading a decimal string back, independently of to_string
IsDigit(ch) == \E d \in 0..9 : DigitChars[d + 1] = ch
DigitValue(ch) == CHOOSE d \in 0..9 : DigitChars[d + 1] = ch

\* minus the value of a digit string (so that the digits of i32::MIN fit)
RECURSIVE ParseNeg(_)
ParseNeg(s) ==
    IF s = <<>> THEN 0
    ELSE ParseNeg(SubSeq(s, 1, Len(s) - 1)) * 10 - DigitValue(s[Len(s)])

\* an optional "-", then digits without a leading zero; no "-0"
IsCanonicalDecimal(s) ==
    LET digits == IF s # <<>> /\ s[1] = "-" THEN Tail(s) ELSE s
    IN  /\ digits # <<>>
        /\ \A i \in 1..Len(digits) : IsDigit(digits[i])
        /\ (Len(digits) > 1 => digits[1] # "0")
        /\ (s[1] = "-" => digits # <<"0">>)

ParseI32(s) == IF s[1] = "-" THEN ParseNeg(Tail(s)) ELSE -ParseNeg(s)

\* c is divisible by 2
DivisibleBy2(c) == 2 * (c \div 2) = c

\* C1: Reset by a sender other than the stored owner fails with Unauthorized
\* and leaves the stored State (count and owner) as it was.
C1_ResetByNonOwnerRejected ==
    (last.op = "Reset" /\ Initialized(before) /\ last.sender # before[1].owner)
        => (last.result = Err("Unauthorized") /\ storage = before)

C1_Witness ==
    /\ last.op = "Reset"
    /\ Initialized(before)
    /\ last.sender # before[1].owner
    /\ last.arg # before[1].count

\* C2: Reset by the stored owner succeeds and stores exactly the given count,
\* whatever the count was before.
C2_ResetByOwnerSetsCount ==
    (last.op = "Reset" /\ Initialized(before) /\ last.sender = before[1].owner)
        => (Succeeded /\ Initialized(storage) /\ storage[1].count = last.arg)

C2_Witness ==
    /\ last.op = "Reset"
    /\ Initialized(before)
    /\ last.sender = before[1].owner
    /\ before[1].count # last.arg
    /\ steps = MaxOps

\* C3: after Initialize, whatever Increase, Decrease, Reset and EvenOdd calls
\* are made, by whatever senders, the stored owner is the sender of init.
C3_OwnerIsCreator ==
    Initialized(storage) => storage[1].owner = creator

C3_Witness ==
    /\ Initialized(before)
    /\ last.op = "Increase"
    /\ last.sender # creator
    /\ Succeeded
    /\ prev.result = Err("Unauthorized")

\* C4 as stated: Increase(v) on count c succeeds and stores exactly c + v, and
\* Decrease(v) exactly c - v, for all i32 c and v, the pairs whose exact sum
\* or difference is outside the i32 range included.  The stored count is an
\* i32, so it equals the exact result only when that result is in range.
C4_ExactForAllPairs ==
    /\ (last.op = "Increase" /\ Initialized(before))
        => /\ Succeeded
           /\ AddInRange(before[1].count, last.arg)
           /\ storage[1].count = before[1].count + last.arg
    /\ (last.op = "Decrease" /\ Initialized(before))
        => /\ Succeeded
           /\ SubInRange(before[1].count, last.arg)
           /\ storage[1].count = before[1].count - last.arg

\* C4 amended: for the pairs whose exact sum (difference) is an i32,
\* Increase(v) (Decrease(v)) succeeds and stores exactly c + v (c - v).
C4_ExactWhenInRange ==
    /\ (last.op = "Increase" /\ Initialized(before)
            /\ AddInRange(before[1].count, last.arg))
        => /\ Succeeded
           /\ storage[1].count = before[1].count + last.arg
    /\ (last.op = "Decrease" /\ Initialized(before)
            /\ SubInRange(before[1].count, last.arg))
        => /\ Succeeded
           /\ storage[1].count = before[1].count - last.arg

C4_Witness ==
    /\ last.op = "Decrease"
    /\ Initialized(before)
    /\ before[1].count = MinI32 + 1
    /\ last.arg = 1
    /\ storage[1].count = MinI32

\* C5: only Reset answers Unauthorized, and Increase and Decrease give every
\* sender the outcome and the resulting State the owner would get.
C5_OnlyResetChecksSender ==
    /\ last.op # "Reset" => last.result.kind # "Unauthorized"
    /\ Initialized(storage) =>
        \A sender \in Addrs, v \in Values :
            /\ try_increase(storage, sender, v, overflow_checks)
                = try_increase(storage, storage[1].owner, v, overflow_checks)
            /\ try_decrease(storage, sender, v, overflow_checks)
                = try_decrease(storage, storage[1].owner, v, overflow_checks)

C5_Witness ==
    /\ last.op = "Decrease"
    /\ Initialized(before)
    /\ last.sender # before[1].owner
    /\ Succeeded
    /\ storage[1].count # before[1].count

\* C6: on a contract that holds no State, Increase, Decrease, Reset and the
\* EvenOdd query fail with NotFound and the contract still holds no State.
C6_UninitializedFails ==
    (last.op \in HandleOps \cup {"QueryEvenOdd"} /\ ~Initialized(before))
        => (last.result = Err("NotFound") /\ ~Initialized(storage))

C6_Witness ==
    /\ last.op = "Increase"
    /\ ~Initialized(before)
    /\ prev.result = Err("NotFound")
    /\ steps = MaxOps

\* C7: the answer of the EvenOdd query on an initialized contract is
\* "Even Number: " or "Odd Number: " followed by the decimal form of the
\* stored count, Even exactly when the count is divisible by 2.
C7_QueryNamesCountAndParity ==
    (last.op = "QueryEvenOdd" /\ Initialized(before)) =>
        LET c == before[1].count
            prefix == IF DivisibleBy2(c) THEN EvenPrefix ELSE OddPrefix
            answer == last.result.data
            number == SubSeq(answer, Len(prefix) + 1, Len(answer))
        IN  /\ last.result.kind = "Ok"
            /\ Len(answer) > Len(prefix)
            /\ SubSeq(answer, 1, Len(prefix)) = prefix
            /\ IsCanonicalDecimal(number)
            /\ ParseI32(number) = c

C7_Witness ==
    /\ last.op = "QueryEvenOdd"
    /\ Initialized(before)
    /\ before[1].count = -3
    /\ last.result = Ok(OddPrefix \o <<"-", "3">>)

\* C8: a query leaves the storage as it was, initialized or not.
C8_QueryReadOnly ==
    last.op = "QueryEvenOdd" => storage = before

C8_Witness ==
    /\ last.op = "QueryEvenOdd"
    /\ Initialized(before)
    /\ prev.result = Ok(<<>>)
    /\ steps = MaxOps

\* the last call repeated the call before it, on an initialized contract
Repeated(ops) == prev.repeat /\ last.op \in ops

\* the second of the two calls changed nothing and answered as the first did
SameAsOnce == storage = before /\ last.result = prev.result

\* C9 as stated: once initialized, Increase(v), Decrease(v), Reset(n) and
\* EvenOdd are idempotent, whatever the argument and the sender.
C9_AllIdempotent ==
    Repeated(HandleOps \cup {"QueryEvenOdd"}) => SameAsOnce

\* C9 amended: once initialized, Reset(n) and EvenOdd are idempotent whatever
\* the argument and the sender, and so are Increase(0) and Decrease(0).
C9_ResetAndQueryIdempotent ==
    (\/ Repeated({"Reset", "QueryEvenOdd"})
     \/ (Repeated({"Increase", "Decrease"}) /\ last.arg = 0))
        => SameAsOnce

C9_Witness ==
    /\ Repeated({"Reset"})
    /\ Succeeded
    /\ last.arg # 0

\* C10: init succeeds for every count and sender and leaves exactly
\* {count, owner: sender} in the storage, also over a State that was there.
C10_InitOverwrites ==
    last.op = "Init"
        => (Succeeded /\ storage = <<State(last.arg, last.sender)>>)

C10_Witness ==
    /\ last.op = "Init"
    /\ Initialized(before)
    /\ before[1].owner # last.sender
    /\ before[1].count # last.arg

====
